---------------------------- MODULE Spec2Model ----------------------------
(***************************************************************************)
(* Taxon-name normalization, short codes, folder resolution and image      *)
(* naming of the akveg-lichens content pipeline (utils.py,                 *)
(* 01_create_toc.py, 02_resize_images.py, 03_format_docx.py).              *)
(*                                                                         *)
(* A Python str is modelled as a sequence of one-character strings, so     *)
(* that stripping, regular-expression substitution, splitting and          *)
(* truncation are computed character by character as the code does.       *)
(***************************************************************************)
EXTENDS Integers, Sequences, FiniteSets, TLC

VARIABLES
    pc,           \* position of the run
    raw,          \* the name handed to the utils.py functions
    taxon_name,   \* generate_taxon_name(raw)
    taxon_name2,  \* generate_taxon_name(taxon_name)
    abbr_name,    \* enforce_abbr_period(raw)
    code_input,   \* the argument of the last generate_short_code call
    short_code,   \* its result
    hierarchy_input,    \* the file the run reads its hierarchy from
    hierarchy,          \* the hierarchy data frame of 01_create_toc.py and 03_format_docx.py
    hierarchy_folders,  \* the hierarchy_folders data frame of 01_create_toc.py
    row_i,              \* the row the loop of 01_create_toc.py is at
    index_files,        \* the _index.md files written, in the order of writing
    output_csv,         \* taxon_hierarchy.csv as 01_create_toc.py wrote it
    docx_dirs,          \* the directories of the taxa folder, as iterdir() lists them
    docx_files,         \* the docx_files data frame of 03_format_docx.py
    docx_hierarchy,     \* its docx_hierarchy data frame
    log,                \* what the run printed, line by line
    temp,               \* the temp data frame of 03_format_docx.py
    doc_i,              \* the row the loop of 03_format_docx.py is at
    md_files,           \* the Markdown files written, in the order of writing
    img_dirs,           \* the taxon directories 02_resize_images.py walks, with their images
    img_files,          \* the img_files data frame of 02_resize_images.py
    img_i,              \* the row the loop of 02_resize_images.py is at
    image_files         \* the image files written to the website, in the order of writing

uvars == <<raw, taxon_name, taxon_name2, abbr_name, code_input, short_code>>
tvars == <<hierarchy_input, hierarchy, hierarchy_folders, row_i, index_files, output_csv>>
dvars == <<docx_dirs, docx_files, docx_hierarchy>>
lvars == <<log, temp, doc_i, md_files>>
ivars == <<img_dirs, img_files, img_i, image_files>>
xvars == <<lvars, ivars>>
vars == <<pc, uvars, tvars, dvars, xvars>>

(***************************************************************************)
(* Bounds of the explored inputs.                                          *)
(***************************************************************************)
\* longest string enumerated character by character
MaxLen == 4
\* most words of an enumerated phrase
MaxWords == 4

(***************************************************************************)
(* Values that are not strings.                                            *)
(***************************************************************************)
\* Python None / a polars null
NULL == <<"<null>">>
\* a variable no statement has assigned yet
UNSET == <<"<unset>">>

(***************************************************************************)
(* String literals of the source.                                          *)
(***************************************************************************)
\* "Parmelia"
Str_Parmelia ==
    <<"P","a","r","m","e","l","i","a">>
\* "Parmeliopsis"
Str_Parmeliopsis ==
    <<"P","a","r","m","e","l","i","o","p","s","i","s">>
\* "sulcata"
Str_sulcata ==
    <<"s","u","l","c","a","t","a">>
\* "Error"
Str_Error ==
    <<"E","r","r","o","r">>
\* "_ Parmelia pseudosulcata "
Name1 ==
    <<"_"," ","P","a","r","m","e","l","i","a"," ","p","s","e","u","d","o","s","u","l","c","a","t","a"," ">>
\* "_Alectoria sarmentosa ssp vexillifera"
Name2 ==
    <<"_","A","l","e","c","t","o","r","i","a"," ","s","a","r","m","e","n","t","o","s","a"," ","s","s","p"," ","v","e","x","i","l","l","i","f","e","r","a">>
\* "_Calicium tigillare & Calicium pinicola"
Name3 ==
    <<"_","C","a","l","i","c","i","u","m"," ","t","i","g","i","l","l","a","r","e"," ","&"," ","C","a","l","i","c","i","u","m"," ","p","i","n","i","c","o","l","a">>
\* "_Acolium inquinans & Pseudothelomma occidentale"
Name4 ==
    <<"_","A","c","o","l","i","u","m"," ","i","n","q","u","i","n","a","n","s"," ","&"," ","P","s","e","u","d","o","t","h","e","l","o","m","m","a"," ","o","c","c","i","d","e","n","t","a","l","e">>
\* "Stereocaulon spp"
Name5 ==
    <<"S","t","e","r","e","o","c","a","u","l","o","n"," ","s","p","p">>
\* "Alectoria sarmentosa ssp. sarmentosa"
Name6 ==
    <<"A","l","e","c","t","o","r","i","a"," ","s","a","r","m","e","n","t","o","s","a"," ","s","s","p","."," ","s","a","r","m","e","n","t","o","s","a">>
\* "Squamarina lentigera"
Str_Squamarina ==
    <<"S","q","u","a","m","a","r","i","n","a"," ","l","e","n","t","i","g","e","r","a">>
\* "Lobed Crusts, Select Crusts, Minutely Fruticose Species"
Str_LobedCrusts ==
    <<"L","o","b","e","d"," ","C","r","u","s","t","s",","," ","S","e","l","e","c","t"," ","C","r","u","s","t","s",","," ","M","i","n","u","t","e","l","y"," ","F","r","u","t","i","c","o","s","e"," ","S","p","e","c","i","e","s">>
\* "gray crustose Caliciaceae"
Str_GrayCaliciaceae ==
    <<"g","r","a","y"," ","c","r","u","s","t","o","s","e"," ","C","a","l","i","c","i","a","c","e","a","e">>
\* "yellow crustose Caliciaceae"
Str_YellowCaliciaceae ==
    <<"y","e","l","l","o","w"," ","c","r","u","s","t","o","s","e"," ","C","a","l","i","c","i","a","c","e","a","e">>
\* "Caliciaceae"
Str_Caliciaceae ==
    <<"C","a","l","i","c","i","a","c","e","a","e">>
\* "[Non-Shrub or Hair-Like] Fruticose Parmelioids"
Str_NonShrubBracket ==
    <<"[","N","o","n","-","S","h","r","u","b"," ","o","r"," ","H","a","i","r","-","L","i","k","e","]"," ","F","r","u","t","i","c","o","s","e"," ","P","a","r","m","e","l","i","o","i","d","s">>
\* "Non-Shrub or Hair-Like Fruticose Parmelioids"
Str_NonShrub ==
    <<"N","o","n","-","S","h","r","u","b"," ","o","r"," ","H","a","i","r","-","L","i","k","e"," ","F","r","u","t","i","c","o","s","e"," ","P","a","r","m","e","l","i","o","i","d","s">>
\* "P. aphthosa-leucophlebia complex & similar"
Str_PelaphLower ==
    <<"P","."," ","a","p","h","t","h","o","s","a","-","l","e","u","c","o","p","h","l","e","b","i","a"," ","c","o","m","p","l","e","x"," ","&"," ","s","i","m","i","l","a","r">>
\* "P. aphthosa-leucophlebia Complex & Similar"
Str_PelaphUpper ==
    <<"P","."," ","a","p","h","t","h","o","s","a","-","l","e","u","c","o","p","h","l","e","b","i","a"," ","C","o","m","p","l","e","x"," ","&"," ","S","i","m","i","l","a","r">>
\* "Lobed-Crusts, Select Crusts, Minutely Fruticose Species"
Str_LobedCrustsHyphen ==
    <<"L","o","b","e","d","-","C","r","u","s","t","s",","," ","S","e","l","e","c","t"," ","C","r","u","s","t","s",","," ","M","i","n","u","t","e","l","y"," ","F","r","u","t","i","c","o","s","e"," ","S","p","e","c","i","e","s">>
\* "Mushroom-Forming Lichens & Basidiolichens"
Str_Mushroom ==
    <<"M","u","s","h","r","o","o","m","-","F","o","r","m","i","n","g"," ","L","i","c","h","e","n","s"," ","&"," ","B","a","s","i","d","i","o","l","i","c","h","e","n","s">>
\* "Mushroom-Forming"
Str_MushroomShort ==
    <<"M","u","s","h","r","o","o","m","-","F","o","r","m","i","n","g">>
\* "Crusts & Fruticose"
Str_CrustsFruticose ==
    <<"C","r","u","s","t","s"," ","&"," ","F","r","u","t","i","c","o","s","e">>
\* "Pseudocyphellaria & Parmostictina"
Str_Pseudocyphellaria ==
    <<"P","s","e","u","d","o","c","y","p","h","e","l","l","a","r","i","a"," ","&"," ","P","a","r","m","o","s","t","i","c","t","i","n","a">>
\* "Pseudo & Parmo"
Str_PseudoParmo ==
    <<"P","s","e","u","d","o"," ","&"," ","P","a","r","m","o">>
\* "Non-Shrub Hair"
Str_NonShrubHair ==
    <<"N","o","n","-","S","h","r","u","b"," ","H","a","i","r">>
\* "Pelaph Complex"
Str_PelaphComplex ==
    <<"P","e","l","a","p","h"," ","C","o","m","p","l","e","x">>
\* " Lichens"
Str_Lichens ==
    <<" ","L","i","c","h","e","n","s">>
\* "Cladonia"
Str_Cladonia ==
    <<"C","l","a","d","o","n","i","a">>
\* "Thamnolia"
Str_Thamnolia ==
    <<"T","h","a","m","n","o","l","i","a">>
\* "Siphula"
Str_Siphula ==
    <<"S","i","p","h","u","l","a">>
\* "Lepra"
Str_Lepra ==
    <<"L","e","p","r","a">>
\* "Dactylina"
Str_Dactylina ==
    <<"D","a","c","t","y","l","i","n","a">>
\* "Allocetraria"
Str_Allocetraria ==
    <<"A","l","l","o","c","e","t","r","a","r","i","a">>
\* "cladoniaceae"
Slug_cladoniaceae ==
    <<"c","l","a","d","o","n","i","a","c","e","a","e">>
\* "icmadophilaceae"
Slug_icmadophilaceae ==
    <<"i","c","m","a","d","o","p","h","i","l","a","c","e","a","e">>
\* "non_shrub_hair"
Slug_non_shrub_hair ==
    <<"n","o","n","_","s","h","r","u","b","_","h","a","i","r">>
\* "Glypholecia scabra"
Str_Glypholecia ==
    <<"G","l","y","p","h","o","l","e","c","i","a"," ","s","c","a","b","r","a">>
\* "scales_squamule_like"
Slug_scales_squamule_like ==
    <<"s","c","a","l","e","s","_","s","q","u","a","m","u","l","e","_","l","i","k","e">>
\* "Lobaria linita & Lobaria tenuior"
Str_LobariaPair ==
    <<"L","o","b","a","r","i","a"," ","l","i","n","i","t","a"," ","&"," ","L","o","b","a","r","i","a"," ","t","e","n","u","i","o","r">>
\* "lungworts"
Slug_lungworts ==
    <<"l","u","n","g","w","o","r","t","s">>
\* "Rusavskia elegans & Rusavskia sorediata"
Str_RusavskiaPair ==
    <<"R","u","s","a","v","s","k","i","a"," ","e","l","e","g","a","n","s"," ","&"," ","R","u","s","a","v","s","k","i","a"," ","s","o","r","e","d","i","a","t","a">>
\* "teloschistaceae"
Slug_teloschistaceae ==
    <<"t","e","l","o","s","c","h","i","s","t","a","c","e","a","e">>
\* "Sporastatia polyspora & Sporastatia testudinea"
Str_SporastatiaPair ==
    <<"S","p","o","r","a","s","t","a","t","i","a"," ","p","o","l","y","s","p","o","r","a"," ","&"," ","S","p","o","r","a","s","t","a","t","i","a"," ","t","e","s","t","u","d","i","n","e","a">>
\* "crusts_fruticose"
Slug_crusts_fruticose ==
    <<"c","r","u","s","t","s","_","f","r","u","t","i","c","o","s","e">>
\* "Xanthoparmelia spp"
Str_XanthoparmeliaSpp ==
    <<"X","a","n","t","h","o","p","a","r","m","e","l","i","a"," ","s","p","p">>
\* "shield_like_parmelioids"
Slug_shield_like_parmelioids ==
    <<"s","h","i","e","l","d","_","l","i","k","e","_","p","a","r","m","e","l","i","o","i","d","s">>
\* "Scales & Squamule-Like Lichens"
Label_Scales ==
    <<"S","c","a","l","e","s"," ","&"," ","S","q","u","a","m","u","l","e","-","L","i","k","e"," ","L","i","c","h","e","n","s">>
\* "Scales & Squamule-like Lichens"
Label_ScalesLower ==
    <<"S","c","a","l","e","s"," ","&"," ","S","q","u","a","m","u","l","e","-","l","i","k","e"," ","L","i","c","h","e","n","s">>
\* "_Squamarina lentigera"
Cell_Squamarina ==
    <<"_","S","q","u","a","m","a","r","i","n","a"," ","l","e","n","t","i","g","e","r","a">>
\* "_Parmelia sulcata"
Cell_Parmelia ==
    <<"_","P","a","r","m","e","l","i","a"," ","s","u","l","c","a","t","a">>
\* "_Parmelia sulcata"
Dir_Parmelia ==
    <<"_","P","a","r","m","e","l","i","a"," ","s","u","l","c","a","t","a">>
\* "_Cladonia stellaris"
Dir_Cladonia ==
    <<"_","C","l","a","d","o","n","i","a"," ","s","t","e","l","l","a","r","i","s">>
\* "_Thamnolia vermicularis"
Dir_Thamnolia ==
    <<"_","T","h","a","m","n","o","l","i","a"," ","v","e","r","m","i","c","u","l","a","r","i","s">>
\* "_Dactylina arctica"
Dir_Dactylina ==
    <<"_","D","a","c","t","y","l","i","n","a"," ","a","r","c","t","i","c","a">>
\* "_Glypholecia scabra"
Dir_Glypholecia ==
    <<"_","G","l","y","p","h","o","l","e","c","i","a"," ","s","c","a","b","r","a">>
\* "_Xanthoparmelia spp"
Dir_Xanthoparmelia ==
    <<"_","X","a","n","t","h","o","p","a","r","m","e","l","i","a"," ","s","p","p">>
\* "_Usnea__longissima"
Dir_Usnea ==
    <<"_","U","s","n","e","a","_","_","l","o","n","g","i","s","s","i","m","a">>

(***************************************************************************)
(* Character classes and str methods.                                      *)
(***************************************************************************)
\* the whitespace characters str.strip(), str.split() and \s act on
WS == {" ", "\t", "\n"}

UpperCase ==
    <<"A","B","C","D","E","F","G","H","I","J","K","L","M",
      "N","O","P","Q","R","S","T","U","V","W","X","Y","Z">>
LowerCase ==
    <<"a","b","c","d","e","f","g","h","i","j","k","l","m",
      "n","o","p","q","r","s","t","u","v","w","x","y","z">>
Digits == {"0","1","2","3","4","5","6","7","8","9"}

Range(f) == {f[i] : i \in DOMAIN f}
Min(S) == CHOOSE x \in S : \A y \in S : x <= y
Max(S) == CHOOSE x \in S : \A y \in S : y <= x

\* str.lower() on one character
LowerChar(c) ==
    IF c \in Range(UpperCase)
    THEN LowerCase[CHOOSE i \in DOMAIN UpperCase : UpperCase[i] = c]
    ELSE c

\* str.lower()
str_lower(s) == [i \in 1..Len(s) |-> LowerChar(s[i])]

\* the string from index i on (s[i-1:] in Python)
From(s, i) == SubSeq(s, i, Len(s))

\* str.strip(chars): drops every leading and trailing character of chars
str_strip(s, chars) ==
    LET keep == {i \in 1..Len(s) : s[i] \notin chars}
    IN  IF keep = {} THEN <<>> ELSE SubSeq(s, Min(keep), Max(keep))

\* the maximal runs of characters outside seps, in order (str.split() for
\* seps = WS; the non-empty components of a path for seps = {"/"})
RECURSIVE Fields(_, _)
Fields(s, seps) ==
    LET body == {i \in 1..Len(s) : s[i] \notin seps}
    IN  IF body = {} THEN <<>>
        ELSE LET b == Min(body)
                 stop == {i \in b..Len(s) : s[i] \in seps}
                 e == IF stop = {} THEN Len(s) + 1 ELSE Min(stop)
             IN  <<SubSeq(s, b, e - 1)>> \o Fields(From(s, e), seps)

\* str.split()
str_split(s) == Fields(s, WS)

\* s[:n]
Prefix(s, n) == SubSeq(s, 1, IF Len(s) < n THEN Len(s) ELSE n)

\* sep.join(parts)
RECURSIVE str_join(_, _)
str_join(sep, parts) ==
    IF parts = <<>> THEN <<>>
    ELSE IF Len(parts) = 1 THEN parts[1]
    ELSE parts[1] \o sep \o str_join(sep, Tail(parts))

\* whether t occurs in s at index i
OccursAt(s, t, i) ==
    /\ i >= 1
    /\ i + Len(t) - 1 <= Len(s)
    /\ \A k \in 1..Len(t) : s[i + k - 1] = t[k]

\* pathlib: Path(s).name, the last component; empty and "." components drop out
path_name(s) ==
    LET comps == SelectSeq(Fields(s, {"/"}), LAMBDA c : c # <<".">>)
    IN  IF comps = <<>> THEN <<>> ELSE comps[Len(comps)]

(***************************************************************************)
(* utils.py                                                                *)
(***************************************************************************)
\* the part[:5] of generate_short_code
CodePartLen == 5

Str_ssp == <<"s","s","p">>
Str_spp == <<"s","p","p">>

\* re.sub(r"&|\.|-|_|(spp)|(ssp)", "", s): one left-to-right pass that drops
\* each matched character or abbreviation and resumes after the match
RECURSIVE RemoveUnwanted(_)
RemoveUnwanted(s) ==
    IF s = <<>> THEN <<>>
    ELSE IF s[1] \in {"&", ".", "-", "_"} THEN RemoveUnwanted(Tail(s))
    ELSE IF OccursAt(s, Str_spp, 1) \/ OccursAt(s, Str_ssp, 1)
         THEN RemoveUnwanted(From(s, 4))
    ELSE <<s[1]>> \o RemoveUnwanted(Tail(s))

\* a join that forgets the [:5]
JoinUntruncated(parts) == str_join(<<"_">>, parts)

\* the join of line 57 and line 61
JoinTruncated(parts) ==
    str_join(<<"_">>, [i \in 1..Len(parts) |-> Prefix(parts[i], CodePartLen)])

\* a duplicate genus test that compares the truncated parts
DuplicateGenusTruncated(parts) ==
    Len(parts) > 2 /\ Prefix(parts[1], CodePartLen) = Prefix(parts[3], CodePartLen)

\* a duplicate genus test that looks for the second genus after the '&'
DuplicateGenusShifted(parts) == Len(parts) > 3 /\ parts[1] = parts[4]

\* the duplicate genus test of line 59
DuplicateGenus(parts) == Len(parts) > 2 /\ parts[1] = parts[3]

generate_short_code(name) ==
    LET processed_name == str_lower(RemoveUnwanted(name))
        parts == str_split(processed_name)
    IN  IF parts = <<>> THEN Str_Error
        ELSE IF Len(parts) = 1 THEN parts[1]
        ELSE IF Len(parts) = 2 THEN JoinTruncated(parts)
        ELSE IF DuplicateGenus(parts)
             THEN JoinTruncated(<<parts[1], parts[2]>> \o From(parts, 4))
        ELSE JoinTruncated(parts)

\* ABBR_PATTERN matches at i: (ssp|spp) there, and (?!\.) no period after it
AbbrMatchAt(s, i) ==
    /\ OccursAt(s, Str_ssp, i) \/ OccursAt(s, Str_spp, i)
    /\ ~(i + 3 <= Len(s) /\ s[i + 3] = ".")

\* where the match that starts at i ends: (\s*) takes the whitespace after
\* the abbreviation and (.*) the rest of that line
AbbrMatchEnd(s, i) ==
    LET ink == {j \in (i + 3)..Len(s) : s[j] \notin WS}
        t == IF ink = {} THEN Len(s) + 1 ELSE Min(ink)
        nl == {j \in t..Len(s) : s[j] = "\n"}
    IN  IF nl = {} THEN Len(s) + 1 ELSE Min(nl)

\* re.sub(ABBR_PATTERN, ABBR_REPLACEMENT, s) searching from index i on: the
\* leftmost match gets "." after its abbreviation, its groups 2 and 3 are
\* written back unchanged, and the search resumes after the match
RECURSIVE AbbrSub(_, _)
AbbrSub(s, i) ==
    LET hits == {j \in i..Len(s) : AbbrMatchAt(s, j)}
    IN  IF hits = {} THEN s
        ELSE LET m == Min(hits)
                 e == AbbrMatchEnd(s, m)
             IN  AbbrSub(SubSeq(s, 1, m + 2) \o <<".">> \o From(s, m + 3), e + 1)

enforce_abbr_period(name) ==
    IF name = NULL THEN NULL ELSE AbbrSub(name, 1)

generate_taxon_name(subfolder_path) ==
    IF subfolder_path = NULL THEN NULL
    ELSE enforce_abbr_period(str_strip(str_strip(path_name(subfolder_path), {"_"}), WS))

(***************************************************************************)
(* polars expressions used by 01_create_toc.py and 03_format_docx.py.      *)
(* A null passes through every string expression as null.                  *)
(***************************************************************************)
\* Expr.str.replace_many(mapping) and Expr.str.replace_all of a pattern that
\* is an alternation of literals: one left-to-right pass that replaces each
\* match and resumes after it. mapping is a sequence of <<pattern, value>>;
\* no pattern of the source is a prefix of another one of its mapping
RECURSIVE ReplaceFrom(_, _, _)
ReplaceFrom(s, i, mapping) ==
    IF i > Len(s) THEN <<>>
    ELSE LET hits == {k \in DOMAIN mapping : OccursAt(s, mapping[k][1], i)}
         IN  IF hits = {} THEN <<s[i]>> \o ReplaceFrom(s, i + 1, mapping)
             ELSE LET k == Min(hits)
                  IN  mapping[k][2] \o ReplaceFrom(s, i + Len(mapping[k][1]), mapping)

ReplaceLiterals(s, mapping) == ReplaceFrom(s, 1, mapping)

str_replace_many(s, mapping) ==
    IF s = NULL THEN NULL ELSE ReplaceLiterals(s, mapping)

\* .str.replace_all(r"\s|&|-", "_")
UnderscoreSeparators(s) ==
    [i \in 1..Len(s) |-> IF s[i] \in WS \cup {"&", "-"} THEN "_" ELSE s[i]]

\* .str.replace_all(r"_+", value="_")
CollapseUnderscores(s) ==
    SelectSeq([i \in 1..Len(s) |-> IF s[i] = "_" /\ i > 1 /\ s[i - 1] = "_" THEN "" ELSE s[i]],
              LAMBDA c : c # "")

\* .str.contains of a literal
str_contains(s, t) == \E i \in 1..Len(s) : OccursAt(s, t, i)

\* the orders DataFrame.unique may return the distinct rows in (it keeps no
\* order unless asked)
Orderings(S) == {f \in [1..Cardinality(S) -> S] : Range(f) = S}

(***************************************************************************)
(* 01_create_toc.py                                                        *)
(***************************************************************************)
\* the first weight of the table of contents
FirstOrder == 10

\* the mapping of lines 59-64
TitleMapping ==
    << <<Str_GrayCaliciaceae, Str_Caliciaceae>>,
       <<Str_YellowCaliciaceae, Str_Caliciaceae>>,
       <<Str_NonShrubBracket, Str_NonShrub>>,
       <<Str_PelaphLower, Str_PelaphUpper>>,
       <<Str_LobedCrustsHyphen, Str_LobedCrusts>> >>

\* the mapping of lines 73-77
FolderMapping ==
    << <<Str_Mushroom, Str_MushroomShort>>,
       <<Str_LobedCrusts, Str_CrustsFruticose>>,
       <<Str_Pseudocyphellaria, Str_PseudoParmo>>,
       <<Str_NonShrub, Str_NonShrubHair>>,
       <<Str_PelaphUpper, Str_PelaphComplex>> >>

\* lines 43-48: map_elements(generate_taxon_name) skips null cells
FormatFolderCell(cell) ==
    IF cell = NULL THEN NULL ELSE generate_taxon_name(cell)

\* lines 51-56: the grouping of Squamarina lentigera is overridden
CorrectedTitle(original_folder, taxon_grouping) ==
    IF original_folder # NULL /\ original_folder = Str_Squamarina
    THEN Str_LobedCrusts
    ELSE taxon_grouping

\* lines 66-69
RenamedTitle(title_name) == str_replace_many(title_name, TitleMapping)

\* lines 79-86
FolderSlug(title_name) ==
    IF title_name = NULL THEN NULL
    ELSE CollapseUnderscores(
            UnderscoreSeparators(
                str_lower(
                    ReplaceLiterals(
                        ReplaceLiterals(title_name, FolderMapping),
                        << <<Str_Lichens, <<>> >>, << <<".">>, <<>> >> >>))))

\* lines 100-102: pl.int_range(10, pl.len() + 10)
OrderColumn(n) == [i \in 1..n |-> FirstOrder + i - 1]

\* the values the steps of 01_create_toc.py give one row of the input table
TocRow(r) ==
    LET folder == FormatFolderCell(r.original_folder)
        title == RenamedTitle(CorrectedTitle(folder, r.taxon_grouping))
    IN  [original_folder |-> folder, title_name |-> title, taxon_folder |-> FolderSlug(title)]

(***************************************************************************)
(* 03_format_docx.py                                                       *)
(***************************************************************************)
\* "C:\ACCS_Work\Servers_Websites\akveg-lichens\content\pages\taxa"
OutputFolderDocx ==
    <<"C",":","\\","A","C","C","S","_","W","o","r","k","\\","S","e","r","v","e","r","s","_","W","e","b","s","i","t","e","s","\\","a","k","v","e","g","-","l","i","c","h","e","n","s","\\","c","o","n","t","e","n","t","\\","p","a","g","e","s","\\","t","a","x","a">>
\* "Formatting Markdown for "
Str_FormattingMarkdown ==
    <<"F","o","r","m","a","t","t","i","n","g"," ","M","a","r","k","d","o","w","n"," ","f","o","r"," ">>
\* ".md"
Ext_md ==
    <<".","m","d">>
\* the Word document the model puts in a taxon directory
Docx_File ==
    <<"\\","d","e","s","c","r","i","p","t","i","o","n",".","d","o","c","x">>
\* "_Thamnolia & Cladonia"
Dir_ThamnoliaCladonia ==
    <<"_","T","h","a","m","n","o","l","i","a"," ","&"," ","C","l","a","d","o","n","i","a">>
\* "___"
Dir_Underscores ==
    <<"_","_","_">>
\* most rows of temp, line 93
TempRows == 10

\* a fallback chain without its last when/then: the taxon's own name is not used
FilledFolderNoOwnName(name, taxon_folder) ==
    IF taxon_folder = NULL /\ str_contains(name, Str_Cladonia) THEN Slug_cladoniaceae
    ELSE IF /\ taxon_folder = NULL
            /\ \/ str_contains(name, Str_Thamnolia)
               \/ str_contains(name, Str_Siphula)
               \/ str_contains(name, Str_Lepra)
         THEN Slug_icmadophilaceae
    ELSE IF /\ taxon_folder = NULL
            /\ \/ str_contains(name, Str_Dactylina)
               \/ str_contains(name, Str_Allocetraria)
         THEN Slug_non_shrub_hair
    ELSE taxon_folder

\* a fallback chain that asks for Thamnolia, Siphula or Lepra before Cladonia
FilledFolderThamnoliaFirst(name, taxon_folder) ==
    IF /\ taxon_folder = NULL
       /\ \/ str_contains(name, Str_Thamnolia)
          \/ str_contains(name, Str_Siphula)
          \/ str_contains(name, Str_Lepra)
    THEN Slug_icmadophilaceae
    ELSE IF taxon_folder = NULL /\ str_contains(name, Str_Cladonia) THEN Slug_cladoniaceae
    ELSE IF /\ taxon_folder = NULL
            /\ \/ str_contains(name, Str_Dactylina)
               \/ str_contains(name, Str_Allocetraria)
         THEN Slug_non_shrub_hair
    ELSE IF taxon_folder = NULL THEN name
    ELSE taxon_folder

\* lines 50-61: the fallback chain for a taxon without a hierarchy match
FilledFolder(name, taxon_folder) ==
    IF taxon_folder = NULL /\ str_contains(name, Str_Cladonia) THEN Slug_cladoniaceae
    ELSE IF /\ taxon_folder = NULL
            /\ \/ str_contains(name, Str_Thamnolia)
               \/ str_contains(name, Str_Siphula)
               \/ str_contains(name, Str_Lepra)
         THEN Slug_icmadophilaceae
    ELSE IF /\ taxon_folder = NULL
            /\ \/ str_contains(name, Str_Dactylina)
               \/ str_contains(name, Str_Allocetraria)
         THEN Slug_non_shrub_hair
    ELSE IF taxon_folder = NULL THEN name
    ELSE taxon_folder

\* the text_mapping of lines 64-68
TextMapping ==
    << <<Str_Glypholecia, Slug_scales_squamule_like>>,
       <<Str_LobariaPair, Slug_lungworts>>,
       <<Str_RusavskiaPair, Slug_teloschistaceae>>,
       <<Str_SporastatiaPair, Slug_crusts_fruticose>>,
       <<Str_XanthoparmeliaSpp, Slug_shield_like_parmelioids>> >>

\* lines 70-73: Expr.replace(text_mapping) replaces a value equal to a key
\* and keeps every other value
ReplacedFolder(taxon_folder) ==
    LET hits == {k \in DOMAIN TextMapping : TextMapping[k][1] = taxon_folder}
    IN  IF hits = {} THEN taxon_folder ELSE TextMapping[Min(hits)][2]

\* line 47: the rows a left join gives for one docx row d
JoinedRows(d, table) ==
    LET matches == SelectSeq(table, LAMBDA h : h.original_folder = d.taxon_name)
        joined(title, folder) ==
            [folder_path |-> d.folder_path, input_docx |-> d.input_docx,
             taxon_name |-> d.taxon_name, short_code |-> d.short_code,
             title_name |-> title, taxon_folder |-> folder]
    IN  IF matches = <<>> THEN <<joined(NULL, NULL)>>
        ELSE [k \in 1..Len(matches) |-> joined(matches[k].title_name, matches[k].taxon_folder)]

RECURSIVE LeftJoin(_, _)
LeftJoin(left, table) ==
    IF left = <<>> THEN <<>>
    ELSE JoinedRows(left[1], table) \o LeftJoin(Tail(left), table)

\* str(n) of a natural number n, as print(n) and cast(pl.String) give it
RECURSIVE str_int(_)
str_int(n) ==
    LET digit == <<"0","1","2","3","4","5","6","7","8","9">>[(n % 10) + 1]
    IN  IF n < 10 THEN <<digit>> ELSE Append(str_int(n \div 10), digit)

\* collect_docx_info: one row per Word document of each directory whose name
\* starts with '_' (the model gives every directory one document)
RECURSIVE CollectDocxInfo(_)
CollectDocxInfo(dirs) ==
    IF dirs = <<>> THEN <<>>
    ELSE IF dirs[1][1] # "_" THEN CollectDocxInfo(Tail(dirs))
    ELSE LET name == generate_taxon_name(dirs[1])
         IN  <<[folder_path |-> dirs[1], input_docx |-> dirs[1] \o Docx_File,
                taxon_name |-> name, short_code |-> generate_short_code(name)]>>
             \o CollectDocxInfo(Tail(dirs))

(***************************************************************************)
(* The names the functions are run on.                                     *)
(***************************************************************************)
Alphabet == {"s", "p", "a", "A", " ", "_", ".", "&", "-"}

\* every string over Alphabet of at most MaxLen characters
CharStrings == UNION {[1..n -> Alphabet] : n \in 0..MaxLen}

Words == {Str_Parmelia, Str_Parmeliopsis, Str_sulcata, Str_ssp, <<"&">>}

\* one to MaxWords words joined by single spaces
Phrases ==
    UNION {{str_join(<<" ">>, w) : w \in [1..n -> Words]} : n \in 1..MaxWords}

\* the names of the examples under __main__, and one given with its folder
Examples ==
    {Name1, Name2, Name3, Name4, Name5, Name6,
     <<"T","a","x","a","/">> \o Name3}

Names == CharStrings \cup Phrases \cup Examples

\* the variables of the runs in which nothing was printed and no Word
\* document or image was handled yet
OthersIdle ==
    /\ log = <<>>
    /\ temp = <<>>
    /\ doc_i = 0
    /\ md_files = <<>>
    /\ img_dirs = <<>>
    /\ img_files = <<>>
    /\ img_i = 0
    /\ image_files = <<>>

(***************************************************************************)
(* Running the functions of utils.py on one name.                          *)
(***************************************************************************)
Init ==
    /\ pc = "start"
    /\ raw \in Names
    /\ taxon_name = UNSET
    /\ taxon_name2 = UNSET
    /\ abbr_name = UNSET
    /\ code_input = UNSET
    /\ short_code = UNSET
    /\ hierarchy_input = <<>>
    /\ hierarchy = <<>>
    /\ hierarchy_folders = <<>>
    /\ row_i = 0
    /\ index_files = <<>>
    /\ output_csv = <<>>
    /\ docx_dirs = <<>>
    /\ docx_files = <<>>
    /\ docx_hierarchy = <<>>
    /\ OthersIdle

\* new_name = enforce_abbr_period(name), as under __main__
EnforceAbbrPeriod ==
    /\ pc = "start"
    /\ abbr_name' = enforce_abbr_period(raw)
    /\ pc' = "abbr"
    /\ UNCHANGED <<raw, taxon_name, taxon_name2, code_input, short_code>>
    /\ UNCHANGED <<tvars, dvars, xvars>>

\* code = generate_short_code(name), as under __main__
GenerateShortCode ==
    /\ pc = "start"
    /\ code_input' = raw
    /\ short_code' = generate_short_code(raw)
    /\ pc' = "coded"
    /\ UNCHANGED <<raw, taxon_name, taxon_name2, abbr_name>>
    /\ UNCHANGED <<tvars, dvars, xvars>>

\* taxon_name = generate_taxon_name(subfolder)
GenerateTaxonName ==
    /\ pc = "start"
    /\ taxon_name' = generate_taxon_name(raw)
    /\ pc' = "named"
    /\ UNCHANGED <<raw, taxon_name2, abbr_name, code_input, short_code>>
    /\ UNCHANGED <<tvars, dvars, xvars>>

\* generate_taxon_name on a name that went through it before, as when
\* 01_create_toc formats a folder name that is already formatted
GenerateTaxonNameAgain ==
    /\ pc = "named"
    /\ taxon_name2' = generate_taxon_name(taxon_name)
    /\ pc' = "renamed"
    /\ UNCHANGED <<raw, taxon_name, abbr_name, code_input, short_code>>
    /\ UNCHANGED <<tvars, dvars, xvars>>

\* short_code = generate_short_code(taxon_name), as collect_docx_info and
\* collect_img_info call it
ShortCodeOfTaxon ==
    /\ pc = "named"
    /\ code_input' = taxon_name
    /\ short_code' = generate_short_code(taxon_name)
    /\ pc' = "collected"
    /\ UNCHANGED <<raw, taxon_name, taxon_name2, abbr_name>>
    /\ UNCHANGED <<tvars, dvars, xvars>>

Next ==
    \/ EnforceAbbrPeriod
    \/ GenerateShortCode
    \/ GenerateTaxonName
    \/ GenerateTaxonNameAgain
    \/ ShortCodeOfTaxon

Spec == Init /\ [][Next]_vars
\* lines 79-87: the output_path column; concat_str gives null when a part is null
OutputPath(taxon_folder, code) ==
    IF taxon_folder = NULL \/ code = NULL THEN NULL
    ELSE OutputFolderDocx \o <<"\\">> \o taxon_folder \o <<"\\">> \o code \o Ext_md

\* line 93: the rows of the taxa named Cladonia, at most the first TempRows
TempFilter(rows) ==
    LET kept == SelectSeq(rows, LAMBDA r : str_contains(r.taxon_name, Str_Cladonia))
    IN  SubSeq(kept, 1, Min({Len(kept), TempRows}))

(***************************************************************************)
(* 02_resize_images.py                                                     *)
(***************************************************************************)
\* "C:\ACCS_Work\Servers_Websites\akveg-lichens\static\images\taxa"
OutputFolderImg ==
    <<"C",":","\\","A","C","C","S","_","W","o","r","k","\\","S","e","r","v","e","r","s","_","W","e","b","s","i","t","e","s","\\","a","k","v","e","g","-","l","i","c","h","e","n","s","\\","s","t","a","t","i","c","\\","i","m","a","g","e","s","\\","t","a","x","a">>
\* "': No images found."
Str_NoImagesFound ==
    <<"'",":"," ","N","o"," ","i","m","a","g","e","s"," ","f","o","u","n","d",".">>
\* " was not resized; dimension too small."
Str_NotResized ==
    <<" ","w","a","s"," ","n","o","t"," ","r","e","s","i","z","e","d",";"," ","d","i","m","e","n","s","i","o","n"," ","t","o","o"," ","s","m","a","l","l",".">>
\* ".jpg"
Ext_jpg ==
    <<".","j","p","g">>
\* ".png"
Ext_png ==
    <<".","p","n","g">>
\* the start of the path of an image file below its taxon directory: "\\IMG_"
Img_Stem ==
    <<"\\","I","M","G","_">>
\* "_Usnea sp"
Dir_UsneaSp ==
    <<"_","U","s","n","e","a"," ","s","p">>
\* "_Usnea sp1"
Dir_UsneaSp1 ==
    <<"_","U","s","n","e","a"," ","s","p","1">>
\* "_Cladonia stellata"
Dir_CladoniaStellata ==
    <<"_","C","l","a","d","o","n","i","a"," ","s","t","e","l","l","a","t","a">>

\* line 39
minimum_size == 1800
\* line 40
output_size == <<1800, 1800>>

\* line 54: re.sub(r"&\s|\.|-|(spp)|(ssp)", "", taxon_name), one pass from
\* the left
RECURSIVE ImgRemoveUnwanted(_)
ImgRemoveUnwanted(s) ==
    IF s = <<>> THEN <<>>
    ELSE IF s[1] = "&" /\ Len(s) > 1 /\ s[2] \in WS THEN ImgRemoveUnwanted(From(s, 3))
    ELSE IF s[1] \in {".", "-"} THEN ImgRemoveUnwanted(Tail(s))
    ELSE IF OccursAt(s, Str_spp, 1) \/ OccursAt(s, Str_ssp, 1)
         THEN ImgRemoveUnwanted(From(s, 4))
    ELSE <<s[1]>> \o ImgRemoveUnwanted(Tail(s))

\* lines 54-64: the short code 02_resize_images.py makes on its own
ImgShortCode(name) ==
    LET parts == str_split(str_lower(ImgRemoveUnwanted(name)))
    IN  IF Len(parts) = 1 THEN parts[1]
        ELSE IF Len(parts) = 2 THEN JoinTruncated(parts)
        ELSE IF Len(parts) > 2 /\ parts[1] = parts[3]
             THEN JoinTruncated(<<parts[1], parts[2]>> \o From(parts, 4))
        ELSE JoinTruncated(parts)

\* pathlib: Path(s).suffix, the last component from its last '.' on, when
\* that is neither its first nor its last character
path_suffix(s) ==
    LET name == path_name(s)
        dots == {i \in 2..Len(name) : name[i] = "."}
    IN  IF dots = {} \/ Max(dots) = Len(name) THEN <<>> ELSE From(name, Max(dots))

\* lines 66-75: the rows of the images of one directory
ImgRows(dir) ==
    LET name == str_strip(str_strip(dir.name, {"_"}), WS)
    IN  [k \in DOMAIN dir.images |->
            [folder_path |-> dir.name, taxon_name |-> name,
             short_code |-> ImgShortCode(name),
             input_path |-> dir.name \o dir.images[k].file,
             image_ext |-> path_suffix(dir.images[k].file)]]

\* lines 48-75: img_list, over the directories whose name starts with '_'
RECURSIVE ImgList(_)
ImgList(dirs) ==
    IF dirs = <<>> THEN <<>>
    ELSE IF dirs[1].name[1] # "_" THEN ImgList(Tail(dirs))
    ELSE ImgRows(dirs[1]) \o ImgList(Tail(dirs))

\* lines 76-77: the lines printed for the directories without an image
RECURSIVE NoImageLines(_)
NoImageLines(dirs) ==
    IF dirs = <<>> THEN <<>>
    ELSE IF dirs[1].name[1] = "_" /\ dirs[1].images = <<>>
         THEN <<<<"'">> \o dirs[1].name \o Str_NoImagesFound>> \o NoImageLines(Tail(dirs))
    ELSE NoImageLines(Tail(dirs))

\* lines 86-88: pl.int_range(0, pl.len()).over("short_code") + 1, the
\* position of row i among the rows of its short code
SequenceNumber(rows, i) ==
    Cardinality({j \in 1..i : rows[j].short_code = rows[i].short_code})

\* str.zfill(width)
str_zfill(s, width) ==
    [k \in 1..(IF Len(s) < width THEN width - Len(s) ELSE 0) |-> "0"] \o s

\* lines 110-113: pl.lit("\\\\") is two backslashes
ImgOutputPath(output_name) == OutputFolderImg \o <<"\\", "\\">> \o output_name

\* PIL Image.thumbnail(size) on an image of w by h pixels: the size it is
\* left with. An image within the size is kept; otherwise the axis that is
\* not the limiting one gets the rounding (down or up, at least 1) that keeps
\* the aspect ratio best, the rounding down on a tie
Abs(n) == IF n < 0 THEN 0 - n ELSE n

Ceil(a, b) == IF a % b = 0 THEN a \div b ELSE (a \div b) + 1

thumbnail(w, h, size) ==
    LET x == size[1]
        y == size[2]
    IN  IF x >= w /\ y >= h THEN <<w, h>>
        ELSE IF x * h >= w * y
        THEN LET lo == (y * w) \div h
                 hi == Ceil(y * w, h)
                 best == IF Abs(w * y - lo * h) <= Abs(w * y - hi * h) THEN lo ELSE hi
             IN  <<Max({best, 1}), y>>
        ELSE LET lo == (x * h) \div w
                 hi == Ceil(x * h, w)
                 best == IF lo = 0 \/ Abs(w * lo - x * h) * hi <= Abs(w * hi - x * h) * lo
                         THEN lo ELSE hi
             IN  <<x, Max({best, 1})>>

(***************************************************************************)
(* The inputs of the two scripts.                                          *)
(***************************************************************************)
\* most rows of the spreadsheet
MaxRows == 2
\* most taxon directories
MaxDirs == 2
\* most rows of the spreadsheet behind a taxon_hierarchy.csv that is read
MaxCsvRows == 1

\* 'Organization (variable)' cells; NULL is an empty cell
Labels ==
    {NULL, Str_GrayCaliciaceae, Str_YellowCaliciaceae, Str_LobedCrustsHyphen,
     Label_Scales, Label_ScalesLower}

\* 'Taxa Folder Name' cells
Cells == {NULL, Cell_Squamarina, Cell_Parmelia}

InputRows == [taxon_grouping : Labels, original_folder : Cells]

InputTables == UNION {[1..n -> InputRows] : n \in 0..MaxRows}

\* the names of the directories of the taxa folder; the last one lacks the
\* '_' of a taxon in progress
DirNames ==
    {Dir_Parmelia, Dir_Cladonia, Dir_Thamnolia, Dir_ThamnoliaCladonia,
     Dir_Dactylina, Dir_Glypholecia, Dir_Xanthoparmelia, Dir_Usnea,
     Dir_Underscores, Str_Squamarina}

\* the orders iterdir() may list at most MaxDirs of them in
DirLists ==
    UNION {{d \in [1..n -> DirNames] : \A i, j \in 1..n : i # j => d[i] # d[j]}
              : n \in 0..MaxDirs}

\* no file written yet
NOFILE == <<"<no file>">>

\* the rows a finished run of 01_create_toc.py can export: those of the
\* spreadsheet rows that get a folder (a null folder ends the run before the
\* export, see CreateIndexFails)
WritableRows == {h \in {TocRow(r) : r \in InputRows} : h.taxon_folder # NULL}

\* the taxon_hierarchy.csv files such a run leaves from a spreadsheet of at
\* most MaxCsvRows rows, each in one row order; write_csv and read_csv keep
\* the fields of a row
WritableCsvs ==
    {CHOOSE f \in Orderings(S) : TRUE :
        S \in {T \in SUBSET WritableRows : Cardinality(T) <= MaxCsvRows}}

UtilsIdle ==
    /\ raw = UNSET
    /\ taxon_name = UNSET
    /\ taxon_name2 = UNSET
    /\ abbr_name = UNSET
    /\ code_input = UNSET
    /\ short_code = UNSET

(***************************************************************************)
(* A run of 01_create_toc.py.                                              *)
(***************************************************************************)
\* lines 35-39: read_excel
TocInit ==
    /\ pc = "toc_read"
    /\ hierarchy_input \in InputTables
    /\ hierarchy = hierarchy_input
    /\ hierarchy_folders = <<>>
    /\ row_i = 0
    /\ index_files = <<>>
    /\ output_csv = NOFILE
    /\ docx_dirs = <<>>
    /\ docx_files = <<>>
    /\ docx_hierarchy = <<>>
    /\ OthersIdle
    /\ UtilsIdle

\* lines 43-48
FormatFolderNames ==
    /\ pc = "toc_read"
    /\ hierarchy' =
          [i \in DOMAIN hierarchy |->
              [taxon_grouping |-> hierarchy[i].taxon_grouping,
               original_folder |-> FormatFolderCell(hierarchy[i].original_folder)]]
    /\ pc' = "toc_formatted"
    /\ UNCHANGED <<hierarchy_input, hierarchy_folders, row_i, index_files, output_csv, dvars, uvars, xvars>>

\* lines 51-56
CorrectGrouping ==
    /\ pc = "toc_formatted"
    /\ hierarchy' =
          [i \in DOMAIN hierarchy |->
              [taxon_grouping |-> hierarchy[i].taxon_grouping,
               original_folder |-> hierarchy[i].original_folder,
               title_name |-> CorrectedTitle(hierarchy[i].original_folder,
                                             hierarchy[i].taxon_grouping)]]
    /\ pc' = "toc_titled"
    /\ UNCHANGED <<hierarchy_input, hierarchy_folders, row_i, index_files, output_csv, dvars, uvars, xvars>>

\* lines 66-69
RenameGroups ==
    /\ pc = "toc_titled"
    /\ hierarchy' =
          [i \in DOMAIN hierarchy |->
              [hierarchy[i] EXCEPT !.title_name = RenamedTitle(@)]]
    /\ pc' = "toc_renamed"
    /\ UNCHANGED <<hierarchy_input, hierarchy_folders, row_i, index_files, output_csv, dvars, uvars, xvars>>

\* lines 79-86
CreateFolderNames ==
    /\ pc = "toc_renamed"
    /\ hierarchy' =
          [i \in DOMAIN hierarchy |->
              [taxon_grouping |-> hierarchy[i].taxon_grouping,
               original_folder |-> hierarchy[i].original_folder,
               title_name |-> hierarchy[i].title_name,
               taxon_folder |-> FolderSlug(hierarchy[i].title_name)]]
    /\ pc' = "toc_slugged"
    /\ UNCHANGED <<hierarchy_input, hierarchy_folders, row_i, index_files, output_csv, dvars, uvars, xvars>>

\* the rows unique(subset=...).select(...) of lines 89-90 keeps
HierarchyKeys(rows) ==
    {[original_folder |-> rows[i].original_folder, title_name |-> rows[i].title_name,
      taxon_folder |-> rows[i].taxon_folder] : i \in DOMAIN rows}

\* the rows unique(subset=...).select(...) of lines 93-95 keeps
FolderKeys(rows) ==
    {[title_name |-> rows[i].title_name, taxon_folder |-> rows[i].taxon_folder]
        : i \in DOMAIN rows}

\* lines 89-90
RemoveDuplicates ==
    /\ pc = "toc_slugged"
    /\ hierarchy' \in Orderings(HierarchyKeys(hierarchy))
    /\ pc' = "toc_unique"
    /\ UNCHANGED <<hierarchy_input, hierarchy_folders, row_i, index_files, output_csv, dvars, uvars, xvars>>

\* lines 93-95 without the unique: one row per row of hierarchy
ExtractFoldersKeepAll ==
    /\ pc = "toc_unique"
    /\ hierarchy_folders' =
          [i \in DOMAIN hierarchy |->
              [title_name |-> hierarchy[i].title_name,
               taxon_folder |-> hierarchy[i].taxon_folder]]
    /\ pc' = "toc_folders"
    /\ UNCHANGED <<hierarchy_input, hierarchy, row_i, index_files, output_csv, dvars, uvars, xvars>>

\* lines 93-95
ExtractFolders ==
    /\ pc = "toc_unique"
    /\ hierarchy_folders' \in Orderings(FolderKeys(hierarchy))
    /\ pc' = "toc_folders"
    /\ UNCHANGED <<hierarchy_input, hierarchy, row_i, index_files, output_csv, dvars, uvars, xvars>>

\* lines 100-102
AssignOrder ==
    /\ pc = "toc_folders"
    /\ hierarchy_folders' =
          [i \in DOMAIN hierarchy_folders |->
              [title_name |-> hierarchy_folders[i].title_name,
               taxon_folder |-> hierarchy_folders[i].taxon_folder,
               order |-> OrderColumn(Len(hierarchy_folders))[i]]]
    /\ row_i' = 1
    /\ pc' = "toc_loop"
    /\ UNCHANGED <<hierarchy_input, hierarchy, index_files, output_csv, dvars, uvars, xvars>>

\* lines 105-127, one row: the folder is made and its _index.md written
CreateIndexFile ==
    /\ pc = "toc_loop"
    /\ row_i <= Len(hierarchy_folders)
    /\ hierarchy_folders[row_i].taxon_folder # NULL
    /\ index_files' =
          Append(index_files,
                 [folder |-> hierarchy_folders[row_i].taxon_folder,
                  title |-> hierarchy_folders[row_i].title_name,
                  weight |-> hierarchy_folders[row_i].order])
    /\ row_i' = row_i + 1
    /\ UNCHANGED <<pc, hierarchy_input, hierarchy, hierarchy_folders, output_csv, dvars, uvars, xvars>>

\* line 107, a row with a null folder: Path / None raises TypeError and the
\* run ends there
CreateIndexFails ==
    /\ pc = "toc_loop"
    /\ row_i <= Len(hierarchy_folders)
    /\ hierarchy_folders[row_i].taxon_folder = NULL
    /\ pc' = "toc_crashed"
    /\ UNCHANGED <<hierarchy_input, hierarchy, hierarchy_folders, row_i, index_files, output_csv, dvars, uvars, xvars>>

\* line 130
ExportCsv ==
    /\ pc = "toc_loop"
    /\ row_i > Len(hierarchy_folders)
    /\ output_csv' = hierarchy
    /\ pc' = "toc_done"
    /\ UNCHANGED <<hierarchy_input, hierarchy, hierarchy_folders, row_i, index_files, dvars, uvars, xvars>>

(***************************************************************************)
(* A run of 03_format_docx.py, up to the folder of every document.         *)
(***************************************************************************)
\* line 37: read_csv of a file 01_create_toc.py wrote; the taxa folder
DocxInit ==
    /\ pc = "docx_read"
    /\ hierarchy_input \in WritableCsvs
    /\ hierarchy = hierarchy_input
    /\ docx_dirs \in DirLists
    /\ hierarchy_folders = <<>>
    /\ row_i = 0
    /\ index_files = <<>>
    /\ output_csv = NOFILE
    /\ docx_files = <<>>
    /\ docx_hierarchy = <<>>
    /\ OthersIdle
    /\ UtilsIdle

\* lines 43-44
ListDocxFiles ==
    /\ pc = "docx_read"
    /\ docx_files' = CollectDocxInfo(docx_dirs)
    /\ pc' = "docx_listed"
    /\ UNCHANGED <<tvars, docx_dirs, docx_hierarchy, uvars, xvars>>

\* line 47
JoinHierarchy ==
    /\ pc = "docx_listed"
    /\ docx_files # <<>>
    /\ docx_hierarchy' = LeftJoin(docx_files, hierarchy)
    /\ pc' = "docx_joined"
    /\ UNCHANGED <<tvars, docx_dirs, docx_files, uvars, xvars>>

\* line 47 when no document was found: pl.DataFrame([]) has no taxon_name
\* column to join on and the run ends there
JoinFails ==
    /\ pc = "docx_listed"
    /\ docx_files = <<>>
    /\ pc' = "docx_crashed"
    /\ UNCHANGED <<tvars, dvars, uvars, xvars>>

\* lines 50-61
FillNonMatches ==
    /\ pc = "docx_joined"
    /\ docx_hierarchy' =
          [i \in DOMAIN docx_hierarchy |->
              [docx_hierarchy[i] EXCEPT
                  !.taxon_folder = FilledFolder(docx_hierarchy[i].taxon_name, @)]]
    /\ pc' = "docx_filled"
    /\ UNCHANGED <<tvars, docx_dirs, docx_files, uvars, xvars>>

\* lines 70-73
ReplaceMissing ==
    /\ pc = "docx_filled"
    /\ docx_hierarchy' =
          [i \in DOMAIN docx_hierarchy |->
              [docx_hierarchy[i] EXCEPT !.taxon_folder = ReplacedFolder(@)]]
    /\ pc' = "docx_mapped"
    /\ UNCHANGED <<tvars, docx_dirs, docx_files, uvars, xvars>>

\* line 76: the number of null folders is printed
PrintNullCount ==
    /\ pc = "docx_mapped"
    /\ log' = Append(log, str_int(Cardinality({i \in DOMAIN docx_hierarchy :
                                                 docx_hierarchy[i].taxon_folder = NULL})))
    /\ pc' = "docx_counted"
    /\ UNCHANGED <<tvars, dvars, uvars, temp, doc_i, md_files, ivars>>

\* lines 79-88
DefineOutputPaths ==
    /\ pc = "docx_counted"
    /\ docx_hierarchy' =
          [i \in DOMAIN docx_hierarchy |->
              [taxon_name |-> docx_hierarchy[i].taxon_name,
               input_docx |-> docx_hierarchy[i].input_docx,
               output_path |-> OutputPath(docx_hierarchy[i].taxon_folder,
                                          docx_hierarchy[i].short_code)]]
    /\ pc' = "docx_paths"
    /\ UNCHANGED <<tvars, docx_dirs, docx_files, uvars, xvars>>

\* line 93
FilterTemp ==
    /\ pc = "docx_paths"
    /\ temp' = TempFilter(docx_hierarchy)
    /\ doc_i' = 1
    /\ pc' = "docx_loop"
    /\ UNCHANGED <<tvars, dvars, uvars, log, md_files, ivars>>

\* lines 95-174, one row: the Word document opens and the Markdown file is
\* written (of its text the model keeps the title of the front matter)
FormatDocx ==
    /\ pc = "docx_loop"
    /\ doc_i <= Len(temp)
    /\ log' = Append(log, Str_FormattingMarkdown \o temp[doc_i].taxon_name)
    /\ md_files' = Append(md_files, [path |-> temp[doc_i].output_path,
                                     title |-> temp[doc_i].taxon_name])
    /\ doc_i' = doc_i + 1
    /\ UNCHANGED <<pc, tvars, dvars, uvars, temp, ivars>>

\* lines 100-107 and 173, one row whose Word document cannot be opened or
\* whose Markdown file cannot be opened for writing: Document() or open()
\* raises, nothing catches it and the run ends there
FormatDocxFails ==
    /\ pc = "docx_loop"
    /\ doc_i <= Len(temp)
    /\ log' = Append(log, Str_FormattingMarkdown \o temp[doc_i].taxon_name)
    /\ pc' = "docx_io_error"
    /\ UNCHANGED <<tvars, dvars, uvars, temp, doc_i, md_files, ivars>>

\* the loop of line 95 is through its rows: the script ends
FormatDone ==
    /\ pc = "docx_loop"
    /\ doc_i > Len(temp)
    /\ pc' = "docx_done"
    /\ UNCHANGED <<tvars, dvars, uvars, xvars>>

SiteInit == TocInit \/ DocxInit

SiteNext ==
    \/ FormatFolderNames
    \/ CorrectGrouping
    \/ RenameGroups
    \/ CreateFolderNames
    \/ RemoveDuplicates
    \/ ExtractFolders
    \/ AssignOrder
    \/ CreateIndexFile
    \/ CreateIndexFails
    \/ ExportCsv
    \/ ListDocxFiles
    \/ JoinHierarchy
    \/ JoinFails
    \/ FillNonMatches
    \/ ReplaceMissing
    \/ PrintNullCount
    \/ DefineOutputPaths
    \/ FilterTemp
    \/ FormatDocx
    \/ FormatDocxFails
    \/ FormatDone

SpecSite == SiteInit /\ [][SiteNext]_vars

\* utils.create_image_thumbnail on an image file: the size of the image it
\* saves at output_path (NULL when it saves none) and whether it prints a line
create_image_thumbnail(im, minimum, size) ==
    IF im.state # "image" THEN [saved |-> NULL, printed |-> TRUE]
    ELSE IF im.width < minimum /\ im.height < minimum
         THEN [saved |-> NULL, printed |-> TRUE]
    ELSE [saved |-> thumbnail(im.width, im.height, size), printed |-> FALSE]

(***************************************************************************)
(* A run of 02_resize_images.py.                                           *)
(***************************************************************************)
\* most images of a taxon directory whose images differ
MaxImages == 1
\* the images of a taxon directory with many photographs
ManyImages == 101

\* what an image file can be: extension, width and height in pixels, and
\* whether Image.open finds it and identifies it
ImageKinds ==
    {[ext |-> Ext_jpg, width |-> 3600, height |-> 2400, state |-> "image"],
     [ext |-> Ext_png, width |-> 1000, height |-> 800, state |-> "image"],
     [ext |-> Ext_jpg, width |-> 1200, height |-> 2500, state |-> "image"],
     [ext |-> Ext_jpg, width |-> 0, height |-> 0, state |-> "missing"],
     [ext |-> Ext_png, width |-> 0, height |-> 0, state |-> "unidentified"]}

\* the k-th image file of a directory
ImageFile(k, kind) ==
    [file |-> Img_Stem \o str_int(k) \o kind.ext,
     width |-> kind.width, height |-> kind.height, state |-> kind.state]

\* the images of a directory in the order the run lists them: up to
\* MaxImages files of any kinds, or ManyImages large photographs
ImageLists ==
    UNION {{[k \in 1..n |-> ImageFile(k, kinds[k])] : kinds \in [1..n -> ImageKinds]}
              : n \in 0..MaxImages}
    \cup {[k \in 1..ManyImages |->
              ImageFile(k, [ext |-> Ext_jpg, width |-> 3600, height |-> 2400,
                            state |-> "image"])]}

\* the names of the directories of the taxa folder; the last one lacks the
\* '_' of a taxon in progress
ImgDirNames ==
    {Dir_UsneaSp, Dir_UsneaSp1, Dir_Cladonia, Dir_CladoniaStellata, Str_Squamarina}

\* the directories iterdir() lists, at most MaxDirs of them, with their images
ImgDirLists ==
    UNION {{d \in [1..n -> [name : ImgDirNames, images : ImageLists]] :
               \A i, j \in 1..n : i # j => d[i].name # d[j].name}
              : n \in 0..MaxDirs}

ImgInit ==
    /\ pc = "img_start"
    /\ img_dirs \in ImgDirLists
    /\ img_files = <<>>
    /\ img_i = 0
    /\ image_files = <<>>
    /\ log = <<>>
    /\ temp = <<>>
    /\ doc_i = 0
    /\ md_files = <<>>
    /\ hierarchy_input = <<>>
    /\ hierarchy = <<>>
    /\ hierarchy_folders = <<>>
    /\ row_i = 0
    /\ index_files = <<>>
    /\ output_csv = <<>>
    /\ docx_dirs = <<>>
    /\ docx_files = <<>>
    /\ docx_hierarchy = <<>>
    /\ UtilsIdle

\* lines 43-80
ListImages ==
    /\ pc = "img_start"
    /\ img_files' = ImgList(img_dirs)
    /\ log' = log \o NoImageLines(img_dirs)
    /\ pc' = "img_listed"
    /\ UNCHANGED <<tvars, dvars, uvars, temp, doc_i, md_files, img_dirs, img_i, image_files>>

\* line 83 when no image was found: pl.DataFrame([]) has no short_code
\* column to filter on and the run ends there
ImgFrameFails ==
    /\ pc = "img_listed"
    /\ img_files = <<>>
    /\ pc' = "img_crashed"
    /\ UNCHANGED <<tvars, dvars, uvars, xvars>>

\* line 83: the number of null or empty short codes is printed
PrintEmptyCodes ==
    /\ pc = "img_listed"
    /\ img_files # <<>>
    /\ log' = Append(log, str_int(Cardinality({i \in DOMAIN img_files :
                                                 img_files[i].short_code \in {NULL, <<>>}})))
    /\ pc' = "img_counted"
    /\ UNCHANGED <<tvars, dvars, uvars, temp, doc_i, md_files, ivars>>

\* lines 86-88
NumberImages ==
    /\ pc = "img_counted"
    /\ img_files' =
          [i \in DOMAIN img_files |->
              [folder_path |-> img_files[i].folder_path,
               taxon_name |-> img_files[i].taxon_name,
               short_code |-> img_files[i].short_code,
               input_path |-> img_files[i].input_path,
               image_ext |-> img_files[i].image_ext,
               sequence_number |-> SequenceNumber(img_files, i)]]
    /\ pc' = "img_numbered"
    /\ UNCHANGED <<tvars, dvars, uvars, lvars, img_dirs, img_i, image_files>>

\* lines 91-96
PadNumbers ==
    /\ pc = "img_numbered"
    /\ img_files' =
          [i \in DOMAIN img_files |->
              [img_files[i] EXCEPT !.sequence_number = str_zfill(str_int(@), 2)]]
    /\ pc' = "img_padded"
    /\ UNCHANGED <<tvars, dvars, uvars, lvars, img_dirs, img_i, image_files>>

\* lines 99-107
NameImages ==
    /\ pc = "img_padded"
    /\ img_files' =
          [i \in DOMAIN img_files |->
              [folder_path |-> img_files[i].folder_path,
               taxon_name |-> img_files[i].taxon_name,
               short_code |-> img_files[i].short_code,
               input_path |-> img_files[i].input_path,
               image_ext |-> img_files[i].image_ext,
               sequence_number |-> img_files[i].sequence_number,
               output_name |-> img_files[i].short_code \o img_files[i].sequence_number
                                  \o img_files[i].image_ext]]
    /\ pc' = "img_named"
    /\ UNCHANGED <<tvars, dvars, uvars, lvars, img_dirs, img_i, image_files>>

\* lines 110-113
DefineImagePaths ==
    /\ pc = "img_named"
    /\ img_files' =
          [i \in DOMAIN img_files |->
              [folder_path |-> img_files[i].folder_path,
               taxon_name |-> img_files[i].taxon_name,
               short_code |-> img_files[i].short_code,
               input_path |-> img_files[i].input_path,
               image_ext |-> img_files[i].image_ext,
               sequence_number |-> img_files[i].sequence_number,
               output_name |-> img_files[i].output_name,
               output_path |-> ImgOutputPath(img_files[i].output_name)]]
    /\ img_i' = 1
    /\ pc' = "img_loop"
    /\ UNCHANGED <<tvars, dvars, uvars, lvars, img_dirs, image_files>>

\* line 117: the rows of img_files that have the output path of row i
RowsOfPath(i) ==
    {j \in DOMAIN img_files : img_files[j].output_path = img_files[i].output_path}

\* the image file behind the input path of a row
SourceFile(row) ==
    LET d == CHOOSE e \in DOMAIN img_dirs : img_dirs[e].name = row.folder_path
        k == CHOOSE n \in DOMAIN img_dirs[d].images :
                 img_dirs[d].name \o img_dirs[d].images[n].file = row.input_path
    IN  img_dirs[d].images[k]

\* line 117 when another row has the same output path: .item() raises
\* ValueError and the run ends there
LookupFails ==
    /\ pc = "img_loop"
    /\ img_i <= Len(img_files)
    /\ RowsOfPath(img_i) # {img_i}
    /\ pc' = "img_crashed"
    /\ UNCHANGED <<tvars, dvars, uvars, xvars>>

\* line 118 on a file that is gone or is no image: Image.open raises,
\* nothing catches it and the run ends there
OpenFails ==
    /\ pc = "img_loop"
    /\ img_i <= Len(img_files)
    /\ RowsOfPath(img_i) = {img_i}
    /\ SourceFile(img_files[img_i]).state # "image"
    /\ pc' = "img_io_error"
    /\ UNCHANGED <<tvars, dvars, uvars, xvars>>

\* lines 119-120: an image below minimum_size on both axes is reported and
\* not saved
SkipSmallImage ==
    /\ pc = "img_loop"
    /\ img_i <= Len(img_files)
    /\ RowsOfPath(img_i) = {img_i}
    /\ LET im == SourceFile(img_files[img_i])
       IN  /\ im.state = "image"
           /\ im.width < minimum_size /\ im.height < minimum_size
    /\ log' = Append(log, img_files[img_i].input_path \o Str_NotResized)
    /\ img_i' = img_i + 1
    /\ UNCHANGED <<pc, tvars, dvars, uvars, temp, doc_i, md_files, img_dirs, img_files, image_files>>

\* lines 121-123: any other image is resized in memory and saved at its
\* output path
ResizeAndCopy ==
    /\ pc = "img_loop"
    /\ img_i <= Len(img_files)
    /\ RowsOfPath(img_i) = {img_i}
    /\ LET im == SourceFile(img_files[img_i])
           size == thumbnail(im.width, im.height, output_size)
       IN  /\ im.state = "image"
           /\ ~(im.width < minimum_size /\ im.height < minimum_size)
           /\ image_files' = Append(image_files, [path |-> img_files[img_i].output_path,
                                                  width |-> size[1], height |-> size[2]])
    /\ img_i' = img_i + 1
    /\ UNCHANGED <<pc, tvars, dvars, uvars, lvars, img_dirs, img_files>>

\* the loop of line 116 is through its rows: the script ends
ImagesDone ==
    /\ pc = "img_loop"
    /\ img_i > Len(img_files)
    /\ pc' = "img_done"
    /\ UNCHANGED <<tvars, dvars, uvars, xvars>>

ImgNext ==
    \/ ListImages
    \/ ImgFrameFails
    \/ PrintEmptyCodes
    \/ NumberImages
    \/ PadNumbers
    \/ NameImages
    \/ DefineImagePaths
    \/ LookupFails
    \/ OpenFails
    \/ SkipSmallImage
    \/ ResizeAndCopy
    \/ ImagesDone

SpecImages == ImgInit /\ [][ImgNext]_vars

(***************************************************************************)
(* Properties of the name normalizer.                                      *)
(***************************************************************************)
\* "Parmelia pseudosulcata"
Str_ParmeliaPseudosulcata ==
    <<"P","a","r","m","e","l","i","a"," ","p","s","e","u","d","o","s","u","l","c","a","t","a">>
\* "Calicium tigillare & Calicium pinicola"
Str_CaliciumPair ==
    <<"C","a","l","i","c","i","u","m"," ","t","i","g","i","l","l","a","r","e"," ","&"," ","C","a","l","i","c","i","u","m"," ","p","i","n","i","c","o","l","a">>
\* "Acolium inquinans & Pseudothelomma occidentale"
Str_AcoliumPair ==
    <<"A","c","o","l","i","u","m"," ","i","n","q","u","i","n","a","n","s"," ","&"," ","P","s","e","u","d","o","t","h","e","l","o","m","m","a"," ","o","c","c","i","d","e","n","t","a","l","e">>
\* "parme_pseud"
Code_parme_pseud ==
    <<"p","a","r","m","e","_","p","s","e","u","d">>
\* "acoli_inqui_pseud_occid"
Code_acoli_inqui_pseud_occid ==
    <<"a","c","o","l","i","_","i","n","q","u","i","_","p","s","e","u","d","_","o","c","c","i","d">>
\* "calic_tigil_calic_pinic"
Code_calic_tigil_calic_pinic ==
    <<"c","a","l","i","c","_","t","i","g","i","l","_","c","a","l","i","c","_","p","i","n","i","c">>
\* "calic_tigil_pinic"
Code_calic_tigil_pinic ==
    <<"c","a","l","i","c","_","t","i","g","i","l","_","p","i","n","i","c">>
\* "Stereocaulon spp."
Str_StereocaulonSppPeriod ==
    <<"S","t","e","r","e","o","c","a","u","l","o","n"," ","s","p","p",".">>

\* C1: name normalization is idempotent: generate_taxon_name applied to its
\* own result returns that result.
C1_NormalizeIdempotent ==
    pc = "renamed" => taxon_name2 = taxon_name

\* whether s begins or ends with an underscore or a whitespace character
RaggedEdge(s) ==
    /\ s # <<>>
    /\ \/ s[1] \in WS \cup {"_"}
       \/ s[Len(s)] \in WS \cup {"_"}

\* C2: the result of generate_taxon_name neither begins nor ends with an
\* underscore or a whitespace character, and "_ Parmelia pseudosulcata "
\* becomes "Parmelia pseudosulcata".
C2_EdgesStripped ==
    pc = "named" =>
        /\ ~RaggedEdge(taxon_name)
        /\ raw = Name1 => taxon_name = Str_ParmeliaPseudosulcata

\* whether every 'ssp' and 'spp' of s is immediately followed by a period
EveryAbbrHasPeriod(s) ==
    \A i \in 1..Len(s) :
        (OccursAt(s, Str_ssp, i) \/ OccursAt(s, Str_spp, i))
            => (i + 3 <= Len(s) /\ s[i + 3] = ".")

\* C3: after one application of enforce_abbr_period every 'ssp' or 'spp' of
\* the result is immediately followed by a period; text that already has
\* its periods is unchanged and "Stereocaulon spp" becomes "Stereocaulon spp.".
C3_EveryAbbrGetsPeriod ==
    pc = "abbr" =>
        /\ EveryAbbrHasPeriod(abbr_name)
        /\ EveryAbbrHasPeriod(raw) => abbr_name = raw
        /\ raw = Name5 => abbr_name = Str_StereocaulonSppPeriod

(***************************************************************************)
(* Properties of the short code.                                           *)
(*                                                                         *)
(* The reference of C4 is written from the description of the algorithm,   *)
(* position by position, without the scanning operators of the model.      *)
(***************************************************************************)
\* the indices at which the one pass over s removes an abbreviation: 'spp'
\* or 'ssp' stands there and no removed abbreviation covers the index
RefAbbrStart(s) ==
    LET at[i \in 1..Len(s)] ==
            /\ OccursAt(s, Str_spp, i) \/ OccursAt(s, Str_ssp, i)
            /\ i - 1 >= 1 => ~at[i - 1]
            /\ i - 2 >= 1 => ~at[i - 2]
    IN  {i \in 1..Len(s) : at[i]}

\* the indices of s that survive the removal
RefKept(s) ==
    {i \in 1..Len(s) :
        /\ s[i] \notin {"&", ".", "-", "_"}
        /\ RefAbbrStart(s) \cap {i - 2, i - 1, i} = {}}

\* the k-th smallest element of a set of numbers
RefNth(S, k) == CHOOSE x \in S : Cardinality({y \in S : y <= x}) = k

\* the name with the unwanted characters removed, in lower case
RefClean(s) ==
    LET kept == RefKept(s)
    IN  [k \in 1..Cardinality(kept) |-> LowerChar(s[RefNth(kept, k)])]

\* the word-parts of t: the first indices of its maximal whitespace-free runs
RefStarts(t) ==
    {b \in 1..Len(t) : t[b] \notin WS /\ (b = 1 \/ t[b - 1] \in WS)}

\* the k-th word-part of t
RefPart(t, k) ==
    LET b == RefNth(RefStarts(t), k)
        e == Max({j \in b..Len(t) : \A x \in b..j : t[x] \notin WS})
    IN  SubSeq(t, b, e)

\* the short code the description gives for a name
RefShortCode(name) ==
    LET t == RefClean(name)
        n == Cardinality(RefStarts(t))
        part(k) == RefPart(t, k)
        cut(k) == Prefix(part(k), CodePartLen)
        us == <<"_">>
    IN  CASE n = 0 -> Str_Error
          [] n = 1 -> part(1)
          [] n = 2 -> cut(1) \o us \o cut(2)
          [] n >= 3 /\ part(1) = part(3) ->
                str_join(us, [k \in 1..(n - 1) |-> IF k <= 2 THEN cut(k) ELSE cut(k + 1)])
          [] OTHER -> str_join(us, [k \in 1..n |-> cut(k)])

\* C4: generate_short_code returns what the description gives: "Error" for
\* no word-part, the single part whole, otherwise the 5-character prefixes
\* joined by '_' with part[2] dropped when it equals part[0] before
\* truncation; with the three stated examples.
C4_ShortCodeMatchesReference ==
    pc \in {"coded", "collected"} =>
        /\ short_code = RefShortCode(code_input)
        /\ code_input = <<>> => short_code = Str_Error
        /\ code_input = Str_ParmeliaPseudosulcata => short_code = Code_parme_pseud
        /\ code_input = Str_AcoliumPair => short_code = Code_acoli_inqui_pseud_occid

\* a three-part name whose first and third parts differ only after the
\* fifth character has been coded, and so has the two-genera example
C4_Witness ==
    /\ pc = "coded"
    /\ \E w \in Words :
          code_input = Str_Parmelia \o <<" ">> \o w \o <<" ">> \o Str_Parmeliopsis

\* C5 as stated: every short code is lower case, holds only alphanumeric
\* characters and underscores, and each underscore-separated part has at
\* most 5 characters.
C5_LowerAlnumFiveChars ==
    pc \in {"coded", "collected"} =>
        /\ \A i \in 1..Len(short_code) :
              short_code[i] \in Range(LowerCase) \cup Digits \cup {"_"}
        /\ \A k \in DOMAIN Fields(short_code, {"_"}) :
              Len(Fields(short_code, {"_"})[k]) <= CodePartLen

\* C5 as amended: a short code other than the sentinel "Error" holds no
\* upper-case letter, no whitespace and none of '&', '.', '-'; when it holds
\* an underscore (two or more word-parts) the underscores separate parts of
\* 1 to 5 characters; a single word-part is returned whole.
C5_ShortCodeShape ==
    pc \in {"coded", "collected"} /\ short_code # Str_Error =>
        /\ \A i \in 1..Len(short_code) :
              short_code[i] \notin Range(UpperCase) \cup WS \cup {"&", ".", "-"}
        /\ (\E i \in 1..Len(short_code) : short_code[i] = "_") =>
              /\ short_code[1] # "_"
              /\ short_code[Len(short_code)] # "_"
              /\ \A i \in 1..(Len(short_code) - 1) :
                    ~(short_code[i] = "_" /\ short_code[i + 1] = "_")
              /\ \A k \in DOMAIN Fields(short_code, {"_"}) :
                    Len(Fields(short_code, {"_"})[k]) <= CodePartLen

\* a single word-part longer than 5 characters has been returned whole
C5_Witness ==
    /\ pc = "collected"
    /\ raw = Name5
    /\ Len(short_code) > CodePartLen
    /\ \A i \in 1..Len(short_code) : short_code[i] # "_"

\* C6 as stated: for "Calicium tigillare & Calicium pinicola" the duplicate
\* genus rule does not apply and all four truncated parts are kept.
C6_CaliciumKeepsFourParts ==
    pc \in {"coded", "collected"} /\ code_input = Str_CaliciumPair =>
        short_code = Code_calic_tigil_calic_pinic

\* C6 as amended: for "Calicium tigillare & Calicium pinicola" the duplicate
\* genus rule applies, because the removed '&' leaves no word-part and the
\* repeated genus sits at positions 0 and 2: the code is "calic_tigil_pinic".
C6_CaliciumDropsDuplicateGenus ==
    pc \in {"coded", "collected"} /\ code_input \in {Str_CaliciumPair, Name3} =>
        short_code = Code_calic_tigil_pinic

\* the label has been coded
C6_Witness ==
    pc = "collected" /\ code_input = Str_CaliciumPair

(***************************************************************************)
(* Properties of the folder slugs and the hierarchy table.                 *)
(***************************************************************************)
\* the folder slugs the run has resolved: those of the table 01_create_toc.py
\* exported, of the folders it made, and those 03_format_docx.py is left with
\* after its fallback chain and override table
ResolvedFolders ==
    {index_files[i].folder : i \in DOMAIN index_files}
    \cup (IF pc = "toc_done"
          THEN {output_csv[i].taxon_folder : i \in DOMAIN output_csv} ELSE {})
    \cup (IF pc = "docx_mapped"
          THEN {docx_hierarchy[i].taxon_folder : i \in DOMAIN docx_hierarchy} ELSE {})

\* C7: every resolved folder slug consists only of characters in [a-z0-9_].
C7_SlugCharset ==
    \A f \in ResolvedFolders \ {NULL} :
        \A i \in 1..Len(f) : f[i] \in Range(LowerCase) \cup Digits \cup {"_"}

\* C8: no resolved folder slug contains two consecutive underscores.
C8_NoDoubleUnderscore ==
    \A f \in ResolvedFolders \ {NULL} :
        \A i \in 1..(Len(f) - 1) : ~(f[i] = "_" /\ f[i + 1] = "_")

\* how often row occurs in rows
Occurrences(rows, row) == Cardinality({i \in DOMAIN rows : rows[i] = row})

\* the (title, folder slug) pair of a row
PairOf(r) == [title_name |-> r.title_name, taxon_folder |-> r.taxon_folder]

\* every row the spreadsheet can hold, with the (original_folder, title,
\* folder slug) triple the steps of the script give it
ExpectedRows == {<<r, TocRow(r)>> : r \in InputRows}

\* the triple of one row
ExpectedRow(r) == (CHOOSE e \in ExpectedRows : e[1] = r)[2]

\* C9: the folder index has exactly one row per distinct (title, folder
\* slug) pair of the input records, its n weights are pairwise distinct and
\* are exactly 10, ..., 10+n-1, and the exported table holds each
\* (original_folder, title, folder slug) triple exactly once.
C9_FolderIndexAndTable ==
    LET triples == {ExpectedRow(hierarchy_input[i]) : i \in DOMAIN hierarchy_input}
        pairs == {PairOf(t) : t \in triples}
        index == [i \in DOMAIN hierarchy_folders |-> PairOf(hierarchy_folders[i])]
        n == Len(hierarchy_folders)
    IN  /\ pc \in {"toc_loop", "toc_done", "toc_crashed"} =>
              /\ Range(index) = pairs
              /\ \A p \in pairs : Occurrences(index, p) = 1
              /\ \A i, j \in 1..n :
                    i # j => hierarchy_folders[i].order # hierarchy_folders[j].order
              /\ {hierarchy_folders[i].order : i \in 1..n} = FirstOrder..(FirstOrder + n - 1)
        /\ pc = "toc_done" =>
              /\ Range(output_csv) = triples
              /\ \A t \in triples : Occurrences(output_csv, t) = 1

\* a table of two different triples that share their (title, folder slug)
\* pair has been exported, with one folder in its index
C9_Witness ==
    /\ pc = "toc_done"
    /\ Len(output_csv) = 2
    /\ Len(hierarchy_folders) = 1
    /\ hierarchy_folders[1].order = FirstOrder

\* C10: no row of the exported hierarchy table and no row left after the
\* fallback chain of 03_format_docx.py has a null folder slug, whatever
\* cells of the input are empty.
C10_NoNullFolder ==
    /\ pc = "toc_done" =>
          \A i \in DOMAIN output_csv : output_csv[i].taxon_folder # NULL
    /\ pc \in {"docx_filled", "docx_mapped"} =>
          \A i \in DOMAIN docx_hierarchy : docx_hierarchy[i].taxon_folder # NULL

\* a row with an empty 'Taxa Folder Name' cell has been exported
C10_Witness ==
    /\ pc = "toc_done"
    /\ \E i \in DOMAIN output_csv : output_csv[i].original_folder = NULL

\* C17: in a run of 01_create_toc.py no folder gets its _index.md written
\* twice: the rows of the folder index have pairwise different folder slugs,
\* and when the loop is through, every weight of the index is the weight of
\* the _index.md of its folder.
C17_IndexWrittenOnce ==
    /\ \A i, j \in DOMAIN index_files :
          i # j => index_files[i].folder # index_files[j].folder
    /\ pc \in {"toc_loop", "toc_done"} =>
          \A i, j \in DOMAIN hierarchy_folders :
              i # j => hierarchy_folders[i].taxon_folder # hierarchy_folders[j].taxon_folder

(***************************************************************************)
(* Properties of the run of 03_format_docx.py.                             *)
(***************************************************************************)
\* the three substring rules of the fallback chain, as name and folder
FallbackRules ==
    << <<{Str_Cladonia}, Slug_cladoniaceae>>,
       <<{Str_Thamnolia, Str_Siphula, Str_Lepra}, Slug_icmadophilaceae>>,
       <<{Str_Dactylina, Str_Allocetraria}, Slug_non_shrub_hair>> >>

\* the rules a taxon name falls under
RulesOf(name) ==
    {k \in DOMAIN FallbackRules : \E t \in FallbackRules[k][1] : str_contains(name, t)}

\* the slugs of the hierarchy rows of a taxon name
MatchesOf(name) ==
    {hierarchy[h].taxon_folder :
        h \in {g \in DOMAIN hierarchy : hierarchy[g].original_folder = name}}

\* the taxa of the run with no hierarchy row, no fallback rule and no
\* override entry: their own name is their folder
OwnNameTaxa ==
    {n \in {docx_files[i].taxon_name : i \in DOMAIN docx_files} :
        /\ MatchesOf(n) = {}
        /\ RulesOf(n) = {}
        /\ \A k \in DOMAIN TextMapping : TextMapping[k][1] # n}

\* a printed line names the taxon, or a printed count of nulls is not 0
Flagged(name) ==
    \E k \in DOMAIN log :
        \/ name # <<>> /\ str_contains(log[k], name)
        \/ /\ \A c \in Range(log[k]) : c \in Digits
           /\ log[k] # <<"0">>

\* C11: when the run of 03_format_docx.py is through, every taxon that got
\* its own name as folder (no hierarchy row, no fallback rule, no override
\* entry) has been logged or flagged in what the run printed.
C11_OwnNameFallbackFlagged ==
    pc = "docx_done" => \A n \in OwnNameTaxa : Flagged(n)

\* C12: an I/O error on one item never ends a run: when a run of
\* 03_format_docx.py or 02_resize_images.py has ended, its loop has gone
\* through every row of its list, and each row either has its file written
\* or has its path in a printed line.
C12_IoErrorsDoNotAbort ==
    /\ pc \in {"docx_done", "docx_io_error"} =>
          /\ doc_i > Len(temp)
          /\ \A i \in DOMAIN temp :
                \/ \E k \in DOMAIN md_files : md_files[k].path = temp[i].output_path
                \/ \E k \in DOMAIN log : str_contains(log[k], temp[i].input_docx)
    /\ pc \in {"img_done", "img_io_error"} =>
          /\ img_i > Len(img_files)
          /\ \A i \in DOMAIN img_files :
                \/ \E k \in DOMAIN image_files :
                      image_files[k].path = img_files[i].output_path
                \/ \E k \in DOMAIN log : str_contains(log[k], img_files[i].input_path)

\* whether s ends with t
EndsWith(s, t) == Len(t) <= Len(s) /\ OccursAt(s, t, Len(s) - Len(t) + 1)

\* the file name a short code equal to the sentinel gives: "\\Error.md"
SentinelFile == <<"\\">> \o Str_Error \o Ext_md

\* C14: the sentinel "Error" of generate_short_code is not taken for a code:
\* no record of collect_docx_info carries it as short code, and no output
\* path or written Markdown file of 03_format_docx.py is named after it.
C14_SentinelNotUsed ==
    /\ \A i \in DOMAIN docx_files : docx_files[i].short_code # Str_Error
    /\ pc \in {"docx_paths", "docx_loop", "docx_done", "docx_io_error"} =>
          \A i \in DOMAIN docx_hierarchy :
              ~EndsWith(docx_hierarchy[i].output_path, SentinelFile)
    /\ \A k \in DOMAIN md_files : ~EndsWith(md_files[k].path, SentinelFile)

\* the folder the first rule of the chain gives a taxon name, its own name
\* when it falls under no rule
RefChain(name) ==
    IF RulesOf(name) = {} THEN name
    ELSE FallbackRules[CHOOSE k \in RulesOf(name) : \A j \in RulesOf(name) : k <= j][2]

\* the folder the override table leaves: the value of the key equal to it,
\* or the folder itself
RefOverride(folder) ==
    IF \E k \in DOMAIN TextMapping : TextMapping[k][1] = folder
    THEN TextMapping[CHOOSE k \in DOMAIN TextMapping : TextMapping[k][1] = folder][2]
    ELSE folder

\* the folders of the rows of docx_hierarchy of a taxon name
FoldersOf(name) ==
    {docx_hierarchy[i].taxon_folder :
        i \in {j \in DOMAIN docx_hierarchy : docx_hierarchy[j].taxon_name = name}}

C16_OverridesEffective ==
    pc = "docx_mapped" =>
        \A k \in DOMAIN TextMapping : \A i \in DOMAIN docx_hierarchy :
            /\ docx_hierarchy[i].folder_path = <<"_">> \o TextMapping[k][1]
            /\ MatchesOf(docx_hierarchy[i].taxon_name) = {}
            => docx_hierarchy[i].taxon_folder = TextMapping[k][2]

\* the entry of the override table for Glypholecia scabra works
C16_GlypholeciaOverridden ==
    pc = "docx_mapped" =>
        \A i \in DOMAIN docx_hierarchy :
            /\ docx_hierarchy[i].folder_path = Dir_Glypholecia
            /\ MatchesOf(docx_hierarchy[i].taxon_name) = {}
            => docx_hierarchy[i].taxon_folder = Slug_scales_squamule_like

(***************************************************************************)
(* Properties of the run of 02_resize_images.py.                           *)
(***************************************************************************)
\* the rows of the images that share the short code of row i, in row order
SameCodeUpTo(i) ==
    {j \in 1..i : img_files[j].short_code = img_files[i].short_code}

\* the number a string of digits writes
RECURSIVE int_str(_)
int_str(s) ==
    IF s = <<>> THEN 0
    ELSE 10 * int_str(SubSeq(s, 1, Len(s) - 1))
         + (CHOOSE d \in 0..9 : str_int(d) = <<s[Len(s)]>>)

\* the images that share a short code are numbered 1..k in row order, each
\* number written with at least two digits
NumberedInOrder ==
    \A i \in DOMAIN img_files :
        /\ Len(img_files[i].sequence_number) >= 2
        /\ \A c \in Range(img_files[i].sequence_number) : c \in Digits
        /\ int_str(img_files[i].sequence_number) = Cardinality(SameCodeUpTo(i))

\* no two rows have the same output name, and so the same output path
NamesDistinct ==
    \A i, j \in DOMAIN img_files :
        i # j => /\ img_files[i].output_name # img_files[j].output_name
                 /\ img_files[i].output_path # img_files[j].output_path

\* C13: once 02_resize_images.py has named its images, the images sharing a
\* short code are numbered 1..k in insertion order with at least two digits,
\* and the output names and paths are pairwise distinct over all images of
\* the run, so that the lookup of the copy loop finds exactly one row.
C13_ImageNamesUnique ==
    pc = "img_loop" => NumberedInOrder /\ NamesDistinct

\* the numbering part of C13 alone
C13_NumberedInOrder ==
    pc = "img_loop" => NumberedInOrder

\* the image files of the run
SourceImages ==
    UNION {Range(img_dirs[d].images) : d \in DOMAIN img_dirs}

\* no image written is larger than output_size or than its source, whether
\* the loop of 02_resize_images.py or create_image_thumbnail writes it
NoImageTooLarge ==
    /\ \A k \in DOMAIN image_files :
          /\ image_files[k].width <= output_size[1]
          /\ image_files[k].height <= output_size[2]
          /\ \E i \in DOMAIN img_files :
                /\ img_files[i].output_path = image_files[k].path
                /\ image_files[k].width <= SourceFile(img_files[i]).width
                /\ image_files[k].height <= SourceFile(img_files[i]).height
    /\ \A im \in SourceImages :
          LET made == create_image_thumbnail(im, minimum_size, output_size).saved
          IN  made # NULL =>
                  /\ made[1] <= output_size[1] /\ made[2] <= output_size[2]
                  /\ made[1] <= im.width /\ made[2] <= im.height

\* C18: when a run of 02_resize_images.py has ended without an I/O error,
\* every collected image, also one below the minimum size on both axes, has
\* a file at its output path, and no written image is larger than the output
\* size or than its source.
C18_EveryImageCopied ==
    pc = "img_done" =>
        /\ \A i \in DOMAIN img_files :
              \E k \in DOMAIN image_files : image_files[k].path = img_files[i].output_path
        /\ NoImageTooLarge

\* the size part of C18 alone
C18_NoImageTooLarge ==
    pc \in {"img_loop", "img_done", "img_io_error", "img_crashed"} => NoImageTooLarge

=============================================================================
